---------------------------- MODULE Spec2Model ----------------------------
(* A model of the vtools Go package: the Queue, Stack and Set containers,   *)
(* the lazy iter.Seq helpers (Range, StrBytes, Filter, Map, Enumerate) with *)
(* their eager slice forms, SplitWS and ReadLinesBytes.                     *)
(*                                                                          *)
(* The package has no shared state: each specification below exercises one  *)
(* part of it and leaves the variables of the other parts at rest.          *)
EXTENDS Integers, Sequences, FiniteSets, TLC

VARIABLES
    \* ---- containers (queue.go, stack.go) ----
    container,      \* which container this run exercises: "Queue" or "Stack"
    q,              \* the Queue's slice contents, front first
    qcap,           \* cap(*q)
    s,              \* the Stack's slice contents, bottom first
    scap,           \* cap(*s)
    lastop,         \* the last call made: "New", "Push" or "Pop"
    panicked,       \* whether the last call panicked
    outs,           \* ghost: the values returned by the Pops so far, in order
    hist,           \* ghost: every element pushed so far, in push order
    pidx,           \* ghost: for each Pop, the index in hist it should return
    pushedAfterPop, \* ghost: some Push came after some successful Pop
    \* ---- Set (set.go) ----
    set,            \* the keys of the Set's map
    setop,          \* the last call on the Set and its arguments
    named,          \* ghost: per key, the last call that named it
    \* ---- iterators (vtools.go) ----
    srcKind,        \* the source of the pipeline: "Range" or "StrBytes"
    vs,             \* the arguments Range was called with
    low,            \* Range's variable low, captured by the closure it returns
    str,            \* the string given to StrBytes, as a sequence of bytes
    si,             \* StrBytes's loop variable i, local to one iteration
    stages,         \* the wrappers around the source, innermost first
    keepf,          \* the predicate handed to Filter / FilterSlice
    tof,            \* the function handed to Map / MapSlice
    enumI,          \* Enumerate's variable i, local to one iteration
    pc,             \* "idle", "running" (inside a for-range) or "panicked"
    itersLeft,      \* how many more times the caller ranges over the sequence
    stopAfter,      \* the consumer breaks at its stopAfter-th element (0: never)
    stopped,        \* the consumer has returned false in this iteration
    out,            \* the elements the consumer received in this iteration
    produced,       \* ghost: the elements the source yielded in this iteration
    keepCalls,      \* ghost: calls of the predicate in this iteration
    toCalls,        \* ghost: calls of the transform in this iteration
    runs,           \* ghost: the finished iterations, in order
    \* ---- SplitWS ----
    text,           \* SplitWS's argument s, as a sequence of characters
    ti,             \* the index of the StrBytes loop inside SplitWS
    parts,          \* SplitWS's parts
    buf,            \* SplitWS's buf
    splitDone,      \* SplitWS has returned parts
    \* ---- ReadLinesBytes (io.go) ----
    content,        \* the bytes of the file
    rpos,           \* how many bytes the bufio.Reader has handed out
    lines,          \* ReadLinesBytes's lines
    rstate,         \* "start", "reading", "done", "openError" or "readError"
    \* ---- MaxIndex (vtools.go) ----
    ms,             \* MaxIndex's argument s
    mi,             \* MaxIndex's loop variable i
    maxV,           \* MaxIndex's maxV
    maxI,           \* MaxIndex's maxI, an index counted from 0
    mstate,         \* "start", "loop", "done" or "panicked"
    \* ---- GCD (math.go) ----
    gargs,          \* the arguments GCD was called with
    ga,             \* GCD's variable a
    gb,             \* GCD's variable b
    gstate,         \* "start", "loop" or "done"
    \* ---- Cycle (vtools.go) ----
    cs,             \* Cycle's argument s
    ci,             \* the closure's variable i, an index counted from 0
    ctake,          \* the consumer breaks at its ctake-th element
    cout,           \* the elements the consumer received
    cstate          \* "idle", "running", "done" (returned) or "panicked"

cvars == <<container, q, qcap, s, scap, lastop, panicked, outs, hist, pidx,
           pushedAfterPop>>

setvars == <<set, setop, named>>

itvars == <<srcKind, vs, low, str, si, stages, keepf, tof, enumI, pc,
            itersLeft, stopAfter, stopped, out, produced, keepCalls, toCalls,
            runs>>

wsvars == <<text, ti, parts, buf, splitDone>>

rdvars == <<content, rpos, lines, rstate>>

mxvars == <<ms, mi, maxV, maxI, mstate>>

gcdvars == <<gargs, ga, gb, gstate>>

cyvars == <<cs, ci, ctake, cout, cstate>>

vars == <<cvars, setvars, itvars, wsvars, rdvars, mxvars, gcdvars, cyvars>>

-----------------------------------------------------------------------------
(* Bounds of the model.                                                     *)

\* element values are 1..MaxVal
MaxVal == 2
\* at most MaxPush elements are pushed in one run
MaxPush == 4
\* a variadic Push takes 0..MaxArgs arguments
MaxArgs == 2
\* the capacity given to NewQueue / NewStack is 0..MaxCap
MaxCap == 2
\* Set keys are 1..MaxKey
MaxKey == 3
\* SetFromSlice takes a slice of at most MaxSlice items
MaxSlice == 2
\* Range's low and high are 0..MaxHigh
MaxHigh == 3
\* Range's step is -MaxStep..MaxStep, 0 excluded
MaxStep == 2
\* the width of int in the model (Go's int has 64 bits)
IntBits == 4
\* the bytes of a string are 0..MaxByte
MaxByte == 1
\* the string given to StrBytes has at most MaxStr bytes
MaxStr == 3
\* at most MaxStages Filter and Map wrappers around a source
MaxStages == 2
\* the consumer breaks at element 1..MaxStop, or never
MaxStop == 2
\* a Range sequence is ranged over at most MaxIters times
MaxIters == 2
\* SplitWS's argument has at most MaxText characters
MaxText == 3
\* the file read by ReadLinesBytes has at most MaxFile bytes
MaxFile == 4
\* the elements of MaxIndex's and Cycle's slices are 1..MaxElem
MaxElem == 3
\* MaxIndex's slice has at most MaxLen elements
MaxLen == 4
\* GCD's arguments are -MaxG..MaxG
MaxG == 4
\* Cycle's slice has at most MaxCycle elements
MaxCycle == 3
\* the consumer of Cycle breaks at element 1..MaxTake
MaxTake == 7

Vals == 1..MaxVal

\* the sequences over S of length at most n
BSeq(S, n) == UNION {[1..k -> S] : k \in 0..n}

SeqRange(f) == {f[k] : k \in DOMAIN f}

Min(S) == CHOOSE x \in S : \A y \in S : x <= y

Max(S) == CHOOSE x \in S : \A y \in S : x >= y

Reverse(f) == [k \in 1..Len(f) |-> f[Len(f) + 1 - k]]

-----------------------------------------------------------------------------
(* Go slices: append and its capacity growth.                               *)

\* the capacity append gives a slice of capacity old that must hold needed
\* elements (runtime growslice for short slices: double, or the needed size)
GrowCap(old, needed) ==
    IF needed <= old THEN old
    ELSE IF needed > 2 * old THEN needed ELSE 2 * old

\* append(sl, items...)
GoAppend(sl, items) == sl \o items

-----------------------------------------------------------------------------
(* queue.go                                                                 *)

\* NewQueue(cap): make([]T, 0, cap); the zero value is the same with cap 0
NewQueue(cap) == [elems |-> <<>>, cap |-> cap]

\* Queue.Push: *q = append(*q, items...)
QueuePushElems(qq, items) == GoAppend(qq, items)

\* mutant of QueuePopPanics: the guard off by one, len(*q) <= 1
QueuePopPanicsOffByOne(qq) == Len(qq) <= 1

\* Queue.Pop's guard: len(*q) == 0
QueuePopPanics(qq) == Len(qq) = 0

\* mutant of QueuePopValue: the back of the queue instead of its front
QueuePopBack(qq) == qq[Len(qq)]

\* Queue.Pop: v := (*q)[0]
QueuePopValue(qq) == qq[1]

\* Queue.Pop: *q = (*q)[1:]
QueuePopRest(qq) == SubSeq(qq, 2, Len(qq))

-----------------------------------------------------------------------------
(* stack.go                                                                 *)

\* NewStack(stackCap): make([]T, 0, stackCap)
NewStack(stackCap) == [elems |-> <<>>, cap |-> stackCap]

\* Stack.Push: *s = append(*s, t...)
StackPushElems(ss, t) == GoAppend(ss, t)

\* Stack.Pop's guard: len(*s) == 0
StackPopPanics(ss) == Len(ss) = 0

\* mutant of StackPopValue: the bottom of the stack instead of its top
StackPopBottom(ss) == ss[1]

\* Stack.Pop: t := (*s)[len(*s)-1]
StackPopValue(ss) == ss[Len(ss)]

\* Stack.Pop: *s = (*s)[:len(*s)-1]
StackPopRest(ss) == SubSeq(ss, 1, Len(ss) - 1)

-----------------------------------------------------------------------------
(* Ghost bookkeeping of pushes and pops, independent of the slices.         *)

\* the indices of hist that no Pop has taken yet
Unpopped == (1..Len(hist)) \ SeqRange(pidx)

RECURSIVE Restrict(_, _, _)
\* the elements of h at the indices >= k that are in P, in index order
Restrict(h, P, k) ==
    IF k > Len(h) THEN <<>>
    ELSE (IF k \in P THEN <<h[k]>> ELSE <<>>) \o Restrict(h, P, k + 1)

\* the elements pushed and not yet popped, in push order
Held == Restrict(hist, Unpopped, 1)

-----------------------------------------------------------------------------
(* The container operations as actions.                                     *)

\* the containers at rest, for the runs that exercise another part
ContainersIdle ==
    /\ container = "none"
    /\ q = <<>> /\ qcap = 0 /\ s = <<>> /\ scap = 0
    /\ lastop = "New" /\ panicked = FALSE
    /\ outs = <<>> /\ hist = <<>> /\ pidx = <<>>
    /\ pushedAfterPop = FALSE

\* the Set at rest
SetIdle ==
    /\ set = {}
    /\ setop = [op |-> "none", args |-> <<>>]
    /\ named = <<>>

\* the iterators at rest
IterIdle ==
    /\ srcKind = "none" /\ vs = <<>> /\ low = 0 /\ str = <<>> /\ si = 0
    /\ stages = <<>> /\ keepf = "none" /\ tof = "none" /\ enumI = 0
    /\ pc = "idle" /\ itersLeft = 0 /\ stopAfter = 0 /\ stopped = FALSE
    /\ out = <<>> /\ produced = <<>> /\ keepCalls = 0 /\ toCalls = 0
    /\ runs = <<>>

\* SplitWS at rest
SplitIdle ==
    /\ text = <<>> /\ ti = 0 /\ parts = <<>> /\ buf = <<>>
    /\ splitDone = FALSE

\* ReadLinesBytes at rest
ReadIdle ==
    /\ content = <<>> /\ rpos = 0 /\ lines = <<>> /\ rstate = "none"

\* MaxIndex at rest
MaxIndexIdle ==
    /\ ms = <<>> /\ mi = 0 /\ maxV = 0 /\ maxI = 0 /\ mstate = "none"

\* GCD at rest
GCDIdle ==
    /\ gargs = <<>> /\ ga = 0 /\ gb = 0 /\ gstate = "none"

\* Cycle at rest
CycleIdle ==
    /\ cs = <<>> /\ ci = 0 /\ ctake = 0 /\ cout = <<>> /\ cstate = "none"

InitContainers ==
    /\ MaxIndexIdle
    /\ GCDIdle
    /\ CycleIdle
    /\ SetIdle
    /\ IterIdle
    /\ SplitIdle
    /\ ReadIdle
    /\ container \in {"Queue", "Stack"}
    /\ \E cap \in 0..MaxCap :
          /\ q = NewQueue(IF container = "Queue" THEN cap ELSE 0).elems
          /\ qcap = NewQueue(IF container = "Queue" THEN cap ELSE 0).cap
          /\ s = NewStack(IF container = "Stack" THEN cap ELSE 0).elems
          /\ scap = NewStack(IF container = "Stack" THEN cap ELSE 0).cap
    /\ lastop = "New"
    /\ panicked = FALSE
    /\ outs = <<>>
    /\ hist = <<>>
    /\ pidx = <<>>
    /\ pushedAfterPop = FALSE

\* q.Push(items...)
QueuePush ==
    /\ container = "Queue"
    /\ \E items \in BSeq(Vals, MaxArgs) :
          /\ Len(hist) + Len(items) <= MaxPush
          /\ q' = QueuePushElems(q, items)
          /\ qcap' = GrowCap(qcap, Len(q) + Len(items))
          /\ hist' = hist \o items
          /\ pushedAfterPop' = (pushedAfterPop \/ (outs /= <<>> /\ items /= <<>>))
    /\ lastop' = "Push"
    /\ panicked' = FALSE
    /\ UNCHANGED <<container, s, scap, outs, pidx>>
    /\ UNCHANGED <<setvars, itvars, wsvars, rdvars,
                   mxvars, gcdvars, cyvars>>

\* q.Pop()
QueuePop ==
    /\ container = "Queue"
    /\ lastop' = "Pop"
    /\ IF QueuePopPanics(q)
       THEN /\ panicked' = TRUE
            /\ UNCHANGED <<q, qcap, outs, pidx>>
       ELSE /\ panicked' = FALSE
            /\ outs' = Append(outs, QueuePopValue(q))
            /\ q' = QueuePopRest(q)
            /\ qcap' = qcap - 1
            /\ pidx' = IF Unpopped = {} THEN pidx
                       ELSE Append(pidx, Min(Unpopped))
    /\ UNCHANGED <<container, s, scap, hist, pushedAfterPop>>
    /\ UNCHANGED <<setvars, itvars, wsvars, rdvars,
                   mxvars, gcdvars, cyvars>>

\* s.Push(t...)
StackPush ==
    /\ container = "Stack"
    /\ \E t \in BSeq(Vals, MaxArgs) :
          /\ Len(hist) + Len(t) <= MaxPush
          /\ s' = StackPushElems(s, t)
          /\ scap' = GrowCap(scap, Len(s) + Len(t))
          /\ hist' = hist \o t
          /\ pushedAfterPop' = (pushedAfterPop \/ (outs /= <<>> /\ t /= <<>>))
    /\ lastop' = "Push"
    /\ panicked' = FALSE
    /\ UNCHANGED <<container, q, qcap, outs, pidx>>
    /\ UNCHANGED <<setvars, itvars, wsvars, rdvars,
                   mxvars, gcdvars, cyvars>>

\* s.Pop()
StackPop ==
    /\ container = "Stack"
    /\ lastop' = "Pop"
    /\ IF StackPopPanics(s)
       THEN /\ panicked' = TRUE
            /\ UNCHANGED <<s, scap, outs, pidx>>
       ELSE /\ panicked' = FALSE
            /\ outs' = Append(outs, StackPopValue(s))
            /\ s' = StackPopRest(s)
            /\ scap' = scap
            /\ pidx' = IF Unpopped = {} THEN pidx
                       ELSE Append(pidx, Max(Unpopped))
    /\ UNCHANGED <<container, q, qcap, hist, pushedAfterPop>>
    /\ UNCHANGED <<setvars, itvars, wsvars, rdvars,
                   mxvars, gcdvars, cyvars>>

NextContainers ==
    \/ QueuePush
    \/ QueuePop
    \/ StackPush
    \/ StackPop

SpecContainers == InitContainers /\ [][NextContainers]_vars

-----------------------------------------------------------------------------
(* Claims about the containers.                                             *)

\* every Pop so far returned the element the ghost bookkeeping names
PopsMatch ==
    /\ Len(outs) = Len(pidx)
    /\ \A k \in DOMAIN outs : outs[k] = hist[pidx[k]]

\* C1: in a Queue, each Pop returns the element pushed earliest among the
\* elements held at that moment (the arguments of one Push counting left to
\* right), and the elements still held keep their push order.
QueueFIFO ==
    container = "Queue" =>
        /\ PopsMatch
        /\ q = Held

\* C1 witness: pushes and pops interleaved, two different values popped and
\* an element still held.
QueueFIFOWitness ==
    /\ container = "Queue"
    /\ lastop = "Pop" /\ ~panicked
    /\ pushedAfterPop
    /\ Len(outs) >= 2 /\ outs[1] /= outs[2]
    /\ Len(q) >= 1

\* C2: in a Stack, each Pop returns the most recently pushed element not yet
\* popped (the last argument of one Push being the most recent); pushing and
\* then popping until empty yields the reverse of the push order.
StackLIFO ==
    container = "Stack" =>
        /\ PopsMatch
        /\ s = Held
        /\ (~pushedAfterPop /\ s = <<>>) => outs = Reverse(hist)

\* C2 witness: three elements pushed, with two different values, then popped
\* until the stack is empty.
StackLIFOWitness ==
    /\ container = "Stack"
    /\ lastop = "Pop" /\ ~panicked
    /\ ~pushedAfterPop
    /\ s = <<>>
    /\ Len(outs) >= 3 /\ outs[1] /= outs[3]

\* C3: Pop panics and returns nothing exactly when the container holds no
\* element, freshly built or emptied by earlier Pops; otherwise it returns.
PopPanicsIffEmpty ==
    [][lastop' = "Pop" =>
          /\ container = "Queue" =>
                IF Len(q) = 0
                THEN panicked' /\ outs' = outs /\ q' = q
                ELSE ~panicked' /\ Len(outs') = Len(outs) + 1
          /\ container = "Stack" =>
                IF Len(s) = 0
                THEN panicked' /\ outs' = outs /\ s' = s
                ELSE ~panicked' /\ Len(outs') = Len(outs) + 1]_vars

\* C3 witness: a container emptied by earlier Pops on which Pop panicked.
PopPanicsWitness ==
    /\ lastop = "Pop" /\ panicked
    /\ Len(hist) >= 2 /\ Len(outs) = Len(hist)

-----------------------------------------------------------------------------
(* set.go: Set[T] is map[T]struct{}; the model keeps the map's key set.     *)

Keys == 1..MaxKey

\* NewSet(cap): make(map[T]struct{}, cap); cap only sizes the allocation
NewSet(cap) == {}

RECURSIVE SetAdd(_, _)
\* Set.Add: for _, it := range items { s[it] = struct{}{} }
SetAdd(m, items) ==
    IF items = <<>> THEN m
    ELSE SetAdd(m \cup {Head(items)}, Tail(items))

\* Set.Contains: _, found := s[t]
SetContains(m, t) == t \in m

\* mutant of SetDelete: deleting a present key clears the map
SetDeleteAll(m, t) == IF t \in m THEN {} ELSE m

\* Set.Delete: delete(s, t)
SetDelete(m, t) == m \ {t}

\* SetFromSlice: s := NewSet[T](len(items)); s.Add(items...)
SetFromSlice(items) == SetAdd(NewSet(Len(items)), items)

\* a Set built by NewSet(cap) or by SetFromSlice(items)
InitSet ==
    /\ MaxIndexIdle
    /\ GCDIdle
    /\ CycleIdle
    /\ ContainersIdle
    /\ IterIdle
    /\ SplitIdle
    /\ ReadIdle
    /\ \/ /\ set = NewSet(0)
          /\ setop = [op |-> "NewSet", args |-> <<>>]
          /\ named = [x \in Keys |-> "none"]
       \/ \E items \in BSeq(Keys, MaxSlice) :
             /\ set = SetFromSlice(items)
             /\ setop = [op |-> "SetFromSlice", args |-> items]
             /\ named = [x \in Keys |->
                           IF x \in SeqRange(items) THEN "add" ELSE "none"]

\* s.Add(items...)
Add ==
    /\ \E items \in BSeq(Keys, MaxArgs) :
          /\ set' = SetAdd(set, items)
          /\ setop' = [op |-> "Add", args |-> items]
          /\ named' = [x \in Keys |->
                          IF x \in SeqRange(items) THEN "add" ELSE named[x]]
    /\ UNCHANGED <<cvars, itvars, wsvars, rdvars,
                   mxvars, gcdvars, cyvars>>

\* s.Delete(t)
Delete ==
    /\ \E t \in Keys :
          /\ set' = SetDelete(set, t)
          /\ setop' = [op |-> "Delete", args |-> <<t>>]
          /\ named' = [named EXCEPT ![t] = "delete"]
    /\ UNCHANGED <<cvars, itvars, wsvars, rdvars,
                   mxvars, gcdvars, cyvars>>

NextSet ==
    \/ Add
    \/ Delete

SpecSet == InitSet /\ [][NextSet]_vars

\* C4: Contains(x) is true exactly when x was in the initial slice or added
\* and the last call naming x was not a Delete; an Add of elements already
\* present and a Delete of an absent element leave the set unchanged.
SetMembership ==
    /\ [](\A x \in Keys : SetContains(set, x) <=> named[x] = "add")
    /\ [][/\ (setop'.op = "Add" /\ SeqRange(setop'.args) \subseteq set)
              => set' = set
          /\ (setop'.op = "Delete" /\ setop'.args[1] \notin set)
              => set' = set]_vars

\* C4 witness: an element that was added, deleted and is absent, beside one
\* that came with the initial slice or an Add and is present.
SetMembershipWitness ==
    /\ setop.op = "Delete"
    /\ \E x, y \in Keys :
          /\ named[x] = "delete" /\ ~SetContains(set, x)
          /\ named[y] = "add" /\ SetContains(set, y)

-----------------------------------------------------------------------------
(* vtools.go: the lazy sequences. A sequence is a function that calls its   *)
(* consumer (yield) once per element and returns when yield returns false.  *)
(* One step of the model is one element leaving the source: the calls of    *)
(* the wrappers and of the consumer it causes are synchronous, and each     *)
(* wrapper hands the consumer's answer back to the loop that called it.     *)

\* int arithmetic wraps around at the width of int
WrapInt(x) == ((x + 2^(IntBits - 1)) % 2^IntBits) - 2^(IntBits - 1)

\* Range: the panics on the number of arguments
RangePanics(args) == Len(args) < 2 \/ Len(args) > 3

\* Range: low := vs[0]
RangeLow(args) == args[1]

\* Range: high := vs[1]
RangeHigh(args) == args[2]

\* Range: step := 1; if len(vs) == 3 { step = vs[2] }
RangeStep(args) == IF Len(args) = 3 THEN args[3] ELSE 1

\* Range: the loop condition, for low < high
RangeContinues(l, args) == l < RangeHigh(args)

\* Range: low += step
RangeAdvance(l, args) == WrapInt(l + RangeStep(args))

\* StrBytes: for i := range len(s)
StrBytesContinues(i, str0) == i < Len(str0)

\* StrBytes: s[i], i counted from 0
StrBytesAt(i, str0) == str0[i + 1]

\* the predicates and transforms the callers of the model pass in
ShouldKeep(p, v) ==
    IF p = "isEven" THEN v % 2 = 0 ELSE v > 0

To(f, v) ==
    IF f = "times10" THEN v * 10 ELSE v + 1

\* mutant of FilterKeeps: the test inverted, if !shouldKeep(v)
FilterKeepsInverted(p, v) == ~ShouldKeep(p, v)

\* Filter: if shouldKeep(v)
FilterKeeps(p, v) == ShouldKeep(p, v)

\* mutant of FilterCont: Filter drops yield's answer and never returns early
FilterIgnoresStop(keep, downCont) == TRUE

\* Filter: if shouldKeep(v) { if !yield(v) { return } }: whether Filter's
\* loop asks its source for another element
FilterCont(keep, downCont) == IF keep THEN downCont ELSE TRUE

\* Map: yield(to(t))
MapElem(f, t) == To(f, t)

\* Map: if !yield(to(t)) { return }
MapCont(downCont) == downCont

\* Enumerate: if !yield(i, v) { return }
EnumerateCont(downCont) == downCont

\* the body of the caller's for-range: it takes v and breaks at its
\* stopAfter-th element
Consume(v, st) ==
    LET o == Append(st.out, v)
        brk == stopAfter /= 0 /\ Len(o) >= stopAfter
    IN  [st |-> [st EXCEPT !.out = o, !.stopped = st.stopped \/ brk],
         cont |-> ~brk]

RECURSIVE Flow(_, _, _)
\* element v enters wrapper k (the consumer, past the last wrapper): the
\* iteration's state after the calls this causes, and whether the caller's
\* loop goes on
Flow(k, v, st) ==
    IF k > Len(stages) THEN Consume(v, st)
    ELSE IF stages[k] = "Filter" THEN
        LET keep == FilterKeeps(keepf, v)
            st1 == [st EXCEPT !.keepCalls = @ + 1]
            down == IF keep THEN Flow(k + 1, v, st1)
                    ELSE [st |-> st1, cont |-> TRUE]
        IN  [st |-> down.st, cont |-> FilterCont(keep, down.cont)]
    ELSE IF stages[k] = "Map" THEN
        LET st1 == [st EXCEPT !.toCalls = @ + 1]
            down == Flow(k + 1, MapElem(tof, v), st1)
        IN  [st |-> down.st, cont |-> MapCont(down.cont)]
    ELSE \* Enumerate: yield(i, v), then i++
        LET down == Flow(k + 1, <<st.enumI, v>>, st)
            c == EnumerateCont(down.cont)
        IN  [st |-> IF c THEN [down.st EXCEPT !.enumI = @ + 1] ELSE down.st,
             cont |-> c]

IterState ==
    [out |-> out, stopped |-> stopped, enumI |-> enumI,
     keepCalls |-> keepCalls, toCalls |-> toCalls]

\* the source yields v: the wrappers and the consumer run
Yield(v, r) ==
    /\ r = Flow(1, v, IterState)
    /\ out' = r.st.out
    /\ stopped' = r.st.stopped
    /\ enumI' = r.st.enumI
    /\ keepCalls' = r.st.keepCalls
    /\ toCalls' = r.st.toCalls
    /\ produced' = Append(produced, v)

\* the source returns: the for-range is over
Return ==
    /\ pc' = "idle"
    /\ runs' = Append(runs, [out |-> out, stopAfter |-> stopAfter,
                             stopped |-> stopped])

-----------------------------------------------------------------------------
(* The eager forms.                                                         *)

\* FilterSlice: if shouldKeep(item)
FilterSliceKeeps(p, item) == ShouldKeep(p, item)

RECURSIVE FilterSlice(_, _)
\* FilterSlice: the loop appending the kept items to out
FilterSlice(sl, p) ==
    IF sl = <<>> THEN <<>>
    ELSE (IF FilterSliceKeeps(p, Head(sl)) THEN <<Head(sl)>> ELSE <<>>)
         \o FilterSlice(Tail(sl), p)

RECURSIVE MapSlice(_, _)
\* MapSlice: the loop appending to(item) to out
MapSlice(sl, f) ==
    IF sl = <<>> THEN <<>>
    ELSE <<To(f, Head(sl))>> \o MapSlice(Tail(sl), f)

-----------------------------------------------------------------------------
(* The iterator actions.                                                    *)

Steps == (-MaxStep..MaxStep) \ {0}

\* the argument lists given to Range: two or three, or a wrong number
RangeArgs ==
    {<<l, h>> : l \in 0..MaxHigh, h \in 0..MaxHigh}
    \cup {<<l, h, st>> : l \in 0..MaxHigh, h \in 0..MaxHigh, st \in Steps}
    \cup {<<>>, <<0>>, <<0, 1, 1, 1>>}

\* the wrappers: Filter and Map in any order, Enumerate (a Seq2) outermost
StageLists ==
    BSeq({"Filter", "Map"}, MaxStages)
    \cup {Append(w, "Enumerate") : w \in BSeq({"Filter", "Map"}, MaxStages)}

\* the state Range(args...) leaves
RangeBuilt(args) ==
    /\ srcKind = "Range"
    /\ vs = args
    /\ str = <<>>
    /\ IF RangePanics(args)
       THEN pc = "panicked" /\ low = 0
       ELSE pc = "idle" /\ low = RangeLow(args)

IterFresh ==
    /\ si = 0 /\ enumI = 0 /\ stopAfter = 0 /\ stopped = FALSE
    /\ out = <<>> /\ produced = <<>> /\ keepCalls = 0 /\ toCalls = 0
    /\ runs = <<>>

\* a bare Range sequence, ranged over up to MaxIters times
InitRange ==
    /\ MaxIndexIdle
    /\ GCDIdle
    /\ CycleIdle
    /\ ContainersIdle
    /\ SetIdle
    /\ SplitIdle
    /\ ReadIdle
    /\ \E args \in RangeArgs : RangeBuilt(args)
    /\ stages = <<>> /\ keepf = "none" /\ tof = "none"
    /\ itersLeft = MaxIters
    /\ IterFresh

\* a pipeline: Range or StrBytes wrapped by Filter, Map and Enumerate,
\* ranged over once
InitPipe ==
    /\ MaxIndexIdle
    /\ GCDIdle
    /\ CycleIdle
    /\ ContainersIdle
    /\ SetIdle
    /\ SplitIdle
    /\ ReadIdle
    /\ \/ \E args \in {a \in RangeArgs : ~RangePanics(a) /\ RangeStep(a) > 0} :
             RangeBuilt(args)
       \/ /\ srcKind = "StrBytes"
          /\ str \in BSeq(0..MaxByte, MaxStr)
          /\ vs = <<>> /\ low = 0 /\ pc = "idle"
    /\ stages \in StageLists
    /\ keepf \in {"isEven", "isPositive"}
    /\ tof \in {"times10", "plus1"}
    /\ itersLeft = 1
    /\ IterFresh

\* the caller starts a for-range over the sequence
Begin ==
    /\ pc = "idle"
    /\ itersLeft > 0
    /\ itersLeft' = itersLeft - 1
    /\ pc' = "running"
    /\ stopAfter' \in 0..MaxStop
    /\ si' = 0
    /\ enumI' = 0
    /\ stopped' = FALSE
    /\ out' = <<>>
    /\ produced' = <<>>
    /\ keepCalls' = 0
    /\ toCalls' = 0
    /\ UNCHANGED <<srcKind, vs, low, str, stages, keepf, tof, runs>>
    /\ UNCHANGED <<cvars, setvars, wsvars, rdvars,
                   mxvars, gcdvars, cyvars>>

\* Range's closure: one turn of for low < high { if !yield(low) { return };
\* low += step }
RangeYield ==
    /\ pc = "running"
    /\ srcKind = "Range"
    /\ RangeContinues(low, vs)
    /\ \E r \in {Flow(1, low, IterState)} :
          /\ Yield(low, r)
          /\ IF r.cont
             THEN /\ low' = RangeAdvance(low, vs)
                  /\ UNCHANGED <<pc, runs>>
             ELSE /\ low' = low
                  /\ pc' = "idle"
                  /\ runs' = Append(runs, [out |-> r.st.out,
                                           stopAfter |-> stopAfter,
                                           stopped |-> r.st.stopped])
    /\ UNCHANGED <<srcKind, vs, str, si, stages, keepf, tof, itersLeft,
                   stopAfter>>
    /\ UNCHANGED <<cvars, setvars, wsvars, rdvars,
                   mxvars, gcdvars, cyvars>>

\* Range's closure: low < high fails and the closure returns
RangeReturn ==
    /\ pc = "running"
    /\ srcKind = "Range"
    /\ ~RangeContinues(low, vs)
    /\ Return
    /\ UNCHANGED <<srcKind, vs, low, str, si, stages, keepf, tof, enumI,
                   itersLeft, stopAfter, stopped, out, produced, keepCalls,
                   toCalls>>
    /\ UNCHANGED <<cvars, setvars, wsvars, rdvars,
                   mxvars, gcdvars, cyvars>>

\* StrBytes's closure: one turn of for i := range len(s) { if !yield(s[i])
\* { return } }
StrBytesYield ==
    /\ pc = "running"
    /\ srcKind = "StrBytes"
    /\ StrBytesContinues(si, str)
    /\ \E r \in {Flow(1, StrBytesAt(si, str), IterState)} :
          /\ Yield(StrBytesAt(si, str), r)
          /\ IF r.cont
             THEN /\ si' = si + 1
                  /\ UNCHANGED <<pc, runs>>
             ELSE /\ si' = si
                  /\ pc' = "idle"
                  /\ runs' = Append(runs, [out |-> r.st.out,
                                           stopAfter |-> stopAfter,
                                           stopped |-> r.st.stopped])
    /\ UNCHANGED <<srcKind, vs, low, str, stages, keepf, tof, itersLeft,
                   stopAfter>>
    /\ UNCHANGED <<cvars, setvars, wsvars, rdvars,
                   mxvars, gcdvars, cyvars>>

\* StrBytes's closure: the loop is over and the closure returns
StrBytesReturn ==
    /\ pc = "running"
    /\ srcKind = "StrBytes"
    /\ ~StrBytesContinues(si, str)
    /\ Return
    /\ UNCHANGED <<srcKind, vs, low, str, si, stages, keepf, tof, enumI,
                   itersLeft, stopAfter, stopped, out, produced, keepCalls,
                   toCalls>>
    /\ UNCHANGED <<cvars, setvars, wsvars, rdvars,
                   mxvars, gcdvars, cyvars>>

NextRange ==
    \/ Begin
    \/ RangeYield
    \/ RangeReturn

SpecRange == InitRange /\ [][NextRange]_vars

NextPipe ==
    \/ Begin
    \/ RangeYield
    \/ RangeReturn
    \/ StrBytesYield
    \/ StrBytesReturn

SpecPipe == InitPipe /\ [][NextPipe]_vars

-----------------------------------------------------------------------------
(* Claims about the iterators.                                              *)

\* C5: once the consumer has returned false the pipeline halts at once: the
\* source's closure has returned, and in that iteration the consumer is not
\* called again, the source yields nothing more and neither the predicate
\* nor the transform is called again.
StopHalts ==
    /\ [](stopped => pc /= "running")
    /\ [][(stopped /\ itersLeft' = itersLeft) =>
             /\ out' = out
             /\ produced' = produced
             /\ keepCalls' = keepCalls
             /\ toCalls' = toCalls]_vars

\* C5 witness: the consumer stopped a Filter-Map-Enumerate pipeline whose
\* source had elements left, after the predicate had rejected an element.
StopHaltsWitness ==
    /\ stopped /\ pc = "idle"
    /\ stages = <<"Filter", "Map", "Enumerate">>
    /\ srcKind = "StrBytes"
    /\ si + 1 < Len(str)
    /\ keepCalls > toCalls

\* C6: ranging a second time over the sequence Range returned gives the
\* elements the first iteration gave, starting again from low.
RangeRestartable ==
    \A j \in DOMAIN runs :
        /\ runs[j].out /= <<>> => runs[j].out[1] = RangeLow(vs)
        /\ runs[j].stopAfter = runs[1].stopAfter => runs[j].out = runs[1].out

RECURSIVE ClaimedRange(_, _, _)
\* low, low+step, ... up to but not including the first value at or past
\* high in the direction of step
ClaimedRange(l, h, st) ==
    IF (st > 0 /\ l < h) \/ (st < 0 /\ l > h)
    THEN <<l>> \o ClaimedRange(l + st, h, st)
    ELSE <<>>

\* C7: Range panics exactly on fewer than 2 or more than 3 arguments, and a
\* full iteration of Range(low, high, step) gives low, low+step, ... strictly
\* before high: the values < high for step > 0, the values > high for step < 0.
RangeProduces ==
    /\ pc = "panicked" <=> Len(vs) \notin {2, 3}
    /\ (runs /= <<>> /\ runs[1].stopAfter = 0) =>
          runs[1].out = ClaimedRange(RangeLow(vs), RangeHigh(vs), RangeStep(vs))

\* C10: Map(Filter(seq, p), f) consumed to the end yields what
\* MapSlice(FilterSlice(slice, p), f) returns on the materialized input.
LazyEqualsEager ==
    (stages = <<"Filter", "Map">> /\ pc = "idle" /\ runs /= <<>> /\ ~stopped) =>
        /\ srcKind = "StrBytes" => produced = str
        /\ out = MapSlice(FilterSlice(produced, keepf), tof)

\* C10 witness: a finished Map(Filter(...)) iteration in which the predicate
\* kept an element after rejecting another.
LazyEqualsEagerWitness ==
    /\ stages = <<"Filter", "Map">> /\ pc = "idle" /\ runs /= <<>> /\ ~stopped
    /\ Len(produced) >= 3
    /\ ~ShouldKeep(keepf, produced[1])
    /\ Len(out) >= 1

-----------------------------------------------------------------------------
(* SplitWS and ReadLinesBytes. Characters and bytes are "SP" (space), "TAB", *)
(* "NL" (newline) and the letters.                                          *)

Letters == {"a", "b"}

Chars == {"SP", "TAB", "NL"} \cup Letters

FileBytes == {"NL"} \cup Letters

\* SplitWS: char == ' ' || char == '\t' || char == '\n'
SplitWSIsSep(char) == char = "SP" \/ char = "TAB" \/ char = "NL"

InitSplitWS ==
    /\ MaxIndexIdle
    /\ GCDIdle
    /\ CycleIdle
    /\ ContainersIdle
    /\ SetIdle
    /\ IterIdle
    /\ ReadIdle
    /\ text \in BSeq(Chars, MaxText)
    /\ ti = 0
    /\ parts = <<>>
    /\ buf = <<>>
    /\ splitDone = FALSE

\* SplitWS: one turn of for char := range StrBytes(s)
SplitWSChar ==
    /\ ~splitDone
    /\ StrBytesContinues(ti, text)
    /\ LET char == StrBytesAt(ti, text)
       IN  IF SplitWSIsSep(char)
           THEN IF Len(buf) /= 0
                THEN /\ parts' = Append(parts, buf)
                     /\ buf' = <<>>
                ELSE UNCHANGED <<parts, buf>>
           ELSE /\ buf' = Append(buf, char)
                /\ UNCHANGED parts
    /\ ti' = ti + 1
    /\ UNCHANGED <<text, splitDone>>
    /\ UNCHANGED <<cvars, setvars, itvars, rdvars,
                   mxvars, gcdvars, cyvars>>

\* SplitWS: the loop is over, return parts
SplitWSReturn ==
    /\ ~splitDone
    /\ ~StrBytesContinues(ti, text)
    /\ splitDone' = TRUE
    /\ UNCHANGED <<text, ti, parts, buf>>
    /\ UNCHANGED <<cvars, setvars, itvars, rdvars,
                   mxvars, gcdvars, cyvars>>

NextSplitWS ==
    \/ SplitWSChar
    \/ SplitWSReturn

SpecSplitWS == InitSplitWS /\ [][NextSplitWS]_vars

\* bufio.Reader.ReadBytes('\n') at offset pos: the bytes up to and including
\* the next newline, or the rest of the file and io.EOF
ReadBytes(data, pos) ==
    LET nls == {k \in (pos + 1)..Len(data) : data[k] = "NL"}
    IN  IF nls = {}
        THEN [lineBytes |-> SubSeq(data, pos + 1, Len(data)), err |-> "EOF"]
        ELSE [lineBytes |-> SubSeq(data, pos + 1, Min(nls)), err |-> "nil"]

\* ReadLinesBytes: if len(lineBytes) > 1, at io.EOF
KeepsAtEOF(lineBytes) == Len(lineBytes) > 1

\* ReadLinesBytes: if len(lineBytes) > 1, after a line with its newline
KeepsLine(lineBytes) == Len(lineBytes) > 1

\* ReadLinesBytes: lineBytes = lineBytes[:len(lineBytes)-1]
CutNewline(lineBytes) == SubSeq(lineBytes, 1, Len(lineBytes) - 1)

InitReadLinesBytes ==
    /\ MaxIndexIdle
    /\ GCDIdle
    /\ CycleIdle
    /\ ContainersIdle
    /\ SetIdle
    /\ IterIdle
    /\ SplitIdle
    /\ content \in BSeq(FileBytes, MaxFile)
    /\ rpos = 0
    /\ lines = <<>>
    /\ rstate = "start"

\* ReadLinesBytes: os.Open succeeds
OpenFile ==
    /\ rstate = "start"
    /\ rstate' = "reading"
    /\ UNCHANGED <<content, rpos, lines>>
    /\ UNCHANGED <<cvars, setvars, itvars, wsvars,
                   mxvars, gcdvars, cyvars>>

\* ReadLinesBytes: os.Open fails, return nil and the error
OpenFails ==
    /\ rstate = "start"
    /\ rstate' = "openError"
    /\ UNCHANGED <<content, rpos, lines>>
    /\ UNCHANGED <<cvars, setvars, itvars, wsvars,
                   mxvars, gcdvars, cyvars>>

\* ReadLinesBytes: one turn of the loop around r.ReadBytes('\n')
ReadLine ==
    /\ rstate = "reading"
    /\ LET r == ReadBytes(content, rpos)
       IN  /\ rpos' = rpos + Len(r.lineBytes)
           /\ IF r.err = "EOF"
              THEN /\ lines' = IF KeepsAtEOF(r.lineBytes)
                               THEN Append(lines, r.lineBytes) ELSE lines
                   /\ rstate' = "done"
              ELSE /\ lines' = IF KeepsLine(r.lineBytes)
                               THEN Append(lines, CutNewline(r.lineBytes))
                               ELSE lines
                   /\ rstate' = "reading"
    /\ UNCHANGED content
    /\ UNCHANGED <<cvars, setvars, itvars, wsvars,
                   mxvars, gcdvars, cyvars>>

\* ReadLinesBytes: r.ReadBytes fails with an error other than io.EOF, return
\* nil and the error
ReadFails ==
    /\ rstate = "reading"
    /\ rstate' = "readError"
    /\ lines' = <<>>
    /\ UNCHANGED <<content, rpos>>
    /\ UNCHANGED <<cvars, setvars, itvars, wsvars,
                   mxvars, gcdvars, cyvars>>

NextReadLinesBytes ==
    \/ OpenFile
    \/ OpenFails
    \/ ReadLine
    \/ ReadFails

SpecReadLinesBytes == InitReadLinesBytes /\ [][NextReadLinesBytes]_vars

-----------------------------------------------------------------------------
(* Claims about SplitWS and ReadLinesBytes.                                 *)

RECURSIVE RunLen(_, _)
\* the length of the longest prefix of str0 with no element of seps
RunLen(str0, seps) ==
    IF str0 = <<>> \/ Head(str0) \in seps THEN 0
    ELSE 1 + RunLen(Tail(str0), seps)

RECURSIVE MaximalRuns(_, _)
\* the maximal non-empty runs of str0 that hold no element of seps, left to
\* right
MaximalRuns(str0, seps) ==
    IF str0 = <<>> THEN <<>>
    ELSE IF Head(str0) \in seps THEN MaximalRuns(Tail(str0), seps)
    ELSE LET n == RunLen(str0, seps)
         IN  <<SubSeq(str0, 1, n)>>
             \o MaximalRuns(SubSeq(str0, n + 1, Len(str0)), seps)

\* C8: SplitWS(s) returns, left to right, exactly the maximal runs of s with
\* no space, tab or newline, the run that ends s included, and no empty token.
SplitWSTokens ==
    splitDone => parts = MaximalRuns(text, {"SP", "TAB", "NL"})

\* C9: ReadLinesBytes returns, in file order, exactly the non-empty lines of
\* the file without their newline, a last line of any positive length with no
\* newline after it included.
ReadLinesBytesLines ==
    rstate = "done" => lines = MaximalRuns(content, {"NL"})

-----------------------------------------------------------------------------
(* vtools.go: MaxIndex. The elements are integers, a totally ordered type.  *)

\* MaxIndex: if len(s) == 0 { panic(...) }
MaxIndexPanics(sl) == Len(sl) = 0

\* mutant of MaxIndexAdvances: v >= maxV, so the last occurrence wins
MaxIndexAdvancesOnTie(v, m) == v >= m

\* MaxIndex: if v > maxV
MaxIndexAdvances(v, m) == v > m

InitMaxIndex ==
    /\ ContainersIdle
    /\ SetIdle
    /\ IterIdle
    /\ SplitIdle
    /\ ReadIdle
    /\ GCDIdle
    /\ CycleIdle
    /\ ms \in BSeq(1..MaxElem, MaxLen)
    /\ mi = 0
    /\ maxV = 0
    /\ maxI = 0
    /\ mstate = "start"

\* MaxIndex: the length check, then maxV, maxI := s[0], 0 and i := 1
MaxIndexStart ==
    /\ mstate = "start"
    /\ IF MaxIndexPanics(ms)
       THEN /\ mstate' = "panicked"
            /\ UNCHANGED <<mi, maxV, maxI>>
       ELSE /\ mstate' = "loop"
            /\ maxV' = ms[1]
            /\ maxI' = 0
            /\ mi' = 1
    /\ UNCHANGED ms
    /\ UNCHANGED <<cvars, setvars, itvars, wsvars, rdvars, gcdvars, cyvars>>

\* MaxIndex: one turn of for i := 1; i < len(s); i++
MaxIndexLoop ==
    /\ mstate = "loop"
    /\ mi < Len(ms)
    /\ LET v == ms[mi + 1]
       IN  IF MaxIndexAdvances(v, maxV)
           THEN maxV' = v /\ maxI' = mi
           ELSE UNCHANGED <<maxV, maxI>>
    /\ mi' = mi + 1
    /\ UNCHANGED <<ms, mstate>>
    /\ UNCHANGED <<cvars, setvars, itvars, wsvars, rdvars, gcdvars, cyvars>>

\* MaxIndex: the loop is over, return maxV, maxI
MaxIndexReturn ==
    /\ mstate = "loop"
    /\ ~(mi < Len(ms))
    /\ mstate' = "done"
    /\ UNCHANGED <<ms, mi, maxV, maxI>>
    /\ UNCHANGED <<cvars, setvars, itvars, wsvars, rdvars, gcdvars, cyvars>>

NextMaxIndex ==
    \/ MaxIndexStart
    \/ MaxIndexLoop
    \/ MaxIndexReturn

SpecMaxIndex == InitMaxIndex /\ [][NextMaxIndex]_vars

\* C11: on a non-empty slice MaxIndex returns (m, i) with m the maximum of s,
\* s[i] = m and no earlier index holding m (the first occurrence wins on
\* ties); on an empty slice it panics.
MaxIndexFirstMax ==
    /\ mstate = "panicked" => ms = <<>>
    /\ ms = <<>> => mstate \in {"start", "panicked"}
    /\ mstate = "done" =>
          /\ \A k \in DOMAIN ms : ms[k] <= maxV
          /\ maxI \in 0..(Len(ms) - 1)
          /\ ms[maxI + 1] = maxV
          /\ \A j \in 1..maxI : ms[j] /= maxV

\* C11 witness: MaxIndex returned on a slice that holds its maximum twice,
\* the first time after a smaller element.
MaxIndexFirstMaxWitness ==
    /\ mstate = "done"
    /\ maxI >= 1
    /\ \E j \in DOMAIN ms : j > maxI + 1 /\ ms[j] = maxV

-----------------------------------------------------------------------------
(* math.go: GCD, over a signed integer type.                                *)

Abs(x) == IF x < 0 THEN -x ELSE x

\* Go's a % b: the remainder of the division truncated toward zero, with the
\* sign of a
GoRem(x, y) ==
    IF x >= 0 THEN x % Abs(y) ELSE -((-x) % Abs(y))

\* GCD: if a < b { a, b = b, a }
GCDSwaps(x, y) == x < y

\* GCD: the loop condition, for b != 0
GCDContinues(y) == y /= 0

InitGCD ==
    /\ ContainersIdle
    /\ SetIdle
    /\ IterIdle
    /\ SplitIdle
    /\ ReadIdle
    /\ MaxIndexIdle
    /\ CycleIdle
    /\ gargs \in {<<x, y>> : x \in -MaxG..MaxG, y \in -MaxG..MaxG}
    /\ ga = gargs[1]
    /\ gb = gargs[2]
    /\ gstate = "start"

\* GCD: if a < b { a, b = b, a }
GCDStart ==
    /\ gstate = "start"
    /\ IF GCDSwaps(ga, gb)
       THEN ga' = gb /\ gb' = ga
       ELSE UNCHANGED <<ga, gb>>
    /\ gstate' = "loop"
    /\ UNCHANGED gargs
    /\ UNCHANGED <<cvars, setvars, itvars, wsvars, rdvars, mxvars, cyvars>>

\* GCD: one turn of for b != 0 { a, b = b, a%b }
GCDLoop ==
    /\ gstate = "loop"
    /\ GCDContinues(gb)
    /\ ga' = gb
    /\ gb' = GoRem(ga, gb)
    /\ UNCHANGED <<gargs, gstate>>
    /\ UNCHANGED <<cvars, setvars, itvars, wsvars, rdvars, mxvars, cyvars>>

\* GCD: b == 0, return a
GCDReturn ==
    /\ gstate = "loop"
    /\ ~GCDContinues(gb)
    /\ gstate' = "done"
    /\ UNCHANGED <<gargs, ga, gb>>
    /\ UNCHANGED <<cvars, setvars, itvars, wsvars, rdvars, mxvars, cyvars>>

NextGCD ==
    \/ GCDStart
    \/ GCDLoop
    \/ GCDReturn

SpecGCD == InitGCD /\ [][NextGCD]_vars

Divides(d, x) == x % d = 0

\* the greatest common divisor: 0 for (0, 0), else the largest positive
\* integer dividing both
GreatestCommonDivisor(x, y) ==
    IF x = 0 /\ y = 0 THEN 0
    ELSE Max({d \in 1..(Abs(x) + Abs(y)) : Divides(d, Abs(x)) /\ Divides(d, Abs(y))})

\* C12: GCD(a, b) returns the greatest common divisor of a and b, the largest
\* positive integer dividing both when they are not both zero and 0 for
\* (0, 0), in either argument order; the loop ends for every input.
GCDIsGreatest ==
    /\ gstate = "done" => ga = GreatestCommonDivisor(gargs[1], gargs[2])
    /\ gstate = "loop" => (gb = 0 \/ Abs(GoRem(ga, gb)) < Abs(gb))

-----------------------------------------------------------------------------
(* vtools.go: Cycle.                                                        *)

\* Cycle: s[i] is an index out of range, a run-time panic
CycleIndexPanics(i, sl) == ~(i < Len(sl))

\* Cycle: s[i], i counted from 0
CycleAt(i, sl) == sl[i + 1]

\* mutant of CycleAdvance: the index is not wrapped, i = i + 1
CycleAdvanceNoWrap(i, sl) == i + 1

\* Cycle: i = (i + 1) % len(s)
CycleAdvance(i, sl) == (i + 1) % Len(sl)

InitCycle ==
    /\ ContainersIdle
    /\ SetIdle
    /\ IterIdle
    /\ SplitIdle
    /\ ReadIdle
    /\ MaxIndexIdle
    /\ GCDIdle
    /\ cs \in BSeq(1..MaxElem, MaxCycle)
    /\ ci = 0
    /\ ctake = 0
    /\ cout = <<>>
    /\ cstate = "idle"

\* the caller starts a for-range over Cycle(s): the closure runs, var i int
CycleBegin ==
    /\ cstate = "idle"
    /\ cstate' = "running"
    /\ ctake' \in 1..MaxTake
    /\ ci' = 0
    /\ cout' = <<>>
    /\ UNCHANGED cs
    /\ UNCHANGED <<cvars, setvars, itvars, wsvars, rdvars, mxvars, gcdvars>>

\* Cycle's closure: one turn of for { if !yield(s[i]) { return };
\* i = (i + 1) % len(s) }; s[i] is evaluated before yield is called
CycleYield ==
    /\ cstate = "running"
    /\ IF CycleIndexPanics(ci, cs)
       THEN /\ cstate' = "panicked"
            /\ UNCHANGED <<ci, cout>>
       ELSE /\ cout' = Append(cout, CycleAt(ci, cs))
            /\ IF Len(cout') >= ctake
               THEN /\ cstate' = "done"
                    /\ UNCHANGED ci
               ELSE /\ ci' = CycleAdvance(ci, cs)
                    /\ UNCHANGED cstate
    /\ UNCHANGED <<cs, ctake>>
    /\ UNCHANGED <<cvars, setvars, itvars, wsvars, rdvars, mxvars, gcdvars>>

NextCycle ==
    \/ CycleBegin
    \/ CycleYield

SpecCycle == InitCycle /\ [][NextCycle]_vars

\* C13: for a non-empty s the k-th element Cycle(s) produces (k from 0) is
\* s[k mod len(s)] and the iteration goes on until the consumer stops it; for
\* an empty s iterating fails with an index out of range before the consumer
\* is called.
CycleWraps ==
    /\ \A k \in 1..Len(cout) : cout[k] = cs[((k - 1) % Len(cs)) + 1]
    /\ cs /= <<>> =>
          /\ cstate /= "panicked"
          /\ cstate = "done" => Len(cout) = ctake
    /\ cs = <<>> =>
          /\ cout = <<>>
          /\ cstate \in {"idle", "running", "panicked"}

\* C13 witness: a slice of three elements, not all equal, cycled through more
\* than twice before the consumer stopped.
CycleWrapsWitness ==
    /\ cstate = "done"
    /\ Len(cs) = 3 /\ cs[1] /= cs[2]
    /\ Len(cout) >= 7

\* the other case of C13 is reached too: iterating Cycle of an empty slice
\* panicked before the consumer received anything.
CyclePanicReached ==
    cstate = "panicked" /\ cs = <<>> /\ cout = <<>>

=============================================================================
